---- MODULE Spec2Model ----
(***************************************************************************)
(* Model of the conflict-free timetable search of src/src/solver.py:       *)
(* solve() and its nested _backtrack(), with the helpers _has_conflict,    *)
(* _occupy and _release, over the data model of src/src/models.py.         *)
(*                                                                         *)
(* The recursion of _backtrack is modelled twice from the same helpers:    *)
(* as a step machine with an explicit call stack (one frame per active     *)
(* call of _backtrack), and as the recursive operator solve(courses, m)    *)
(* that computes the returned list in one evaluation.                      *)
(***************************************************************************)
EXTENDS Integers, Sequences, FiniteSets

(***************************************************************************)
(* Bounds of the model                                                     *)
(***************************************************************************)
\* Total size of an input course list: every course counts for its number
\* of sections, a course without sections counts for one.
MaxSize == 3

\* Largest explicit cap tried besides the default one.
MaxCap == 2

\* Default value of the parameter max_results of solve.
DefaultMaxResults == 100

(***************************************************************************)
(* Data model (src/src/models.py)                                          *)
(***************************************************************************)
TimeSlot(wd, s, e) == [weekday |-> wd, start_period |-> s, end_period |-> e]

\* TimeSlot.periods: the (weekday, period) cells of one slot, in order.
\* range(start, end + 1) is empty when start > end.
RECURSIVE periods(_)
periods(ts) ==
    IF ts.start_period > ts.end_period
    THEN <<>>
    ELSE <<<<ts.weekday, ts.start_period>>>>
         \o periods([ts EXCEPT !.start_period = @ + 1])

\* Section.all_periods: the set of cells a section covers.
all_periods(section) ==
    UNION {{periods(section.time_slots[k])[n] :
                n \in 1..Len(periods(section.time_slots[k]))} :
           k \in 1..Len(section.time_slots)}

(***************************************************************************)
(* Inputs                                                                  *)
(***************************************************************************)
\* The time-slot lists a section of the model may carry: none, Monday 1-2,
\* Tuesday 1-2, and a list of three slots of which one is reversed (covers
\* no cell) and two overlap each other on Monday 3.
NoSlots == <<>>
Mon12 == <<TimeSlot(0, 1, 2)>>
Tue12 == <<TimeSlot(1, 1, 2)>>
Multi == <<TimeSlot(0, 3, 3), TimeSlot(1, 2, 1), TimeSlot(0, 2, 3)>>
SlotLists == {NoSlots, Mon12, Tue12, Multi}

\* A shape is the list of the time-slot lists of one course's sections.
Shapes(t) == UNION {[1..n -> SlotLists] : n \in 0..t}

ShapeSize(sh) == IF Len(sh) = 0 THEN 1 ELSE Len(sh)

RECURSIVE ShapeLists(_)
ShapeLists(t) ==
    {<<>>} \cup
    UNION {{<<sh>> \o rest : rest \in ShapeLists(t - ShapeSize(sh))} :
           sh \in {s \in Shapes(t) : ShapeSize(s) <= t}}

\* Course i of the input is named i; its j-th section has section_id j.
MkCourse(i, sh) ==
    [name |-> i,
     sections |-> [j \in 1..Len(sh) |->
                     [course_name |-> i, section_id |-> j, time_slots |-> sh[j]]]]

MkCourses(shs) == [i \in 1..Len(shs) |-> MkCourse(i, shs[i])]

\* Two courses of two sections each whose four combinations are all free
\* of conflicts.
ScenarioC == MkCourses(<<<<Mon12, Tue12>>, <<NoSlots, NoSlots>>>>)

Inputs == {MkCourses(shs) : shs \in ShapeLists(MaxSize)} \cup {ScenarioC}

Caps == (-1..MaxCap) \cup {DefaultMaxResults}

(***************************************************************************)
(* Helpers of solver.py                                                    *)
(***************************************************************************)
\* A conflict test over range(start, end): the last period is left out.
_has_conflict_exclusive_end(time_slots, occupied) ==
    \E k \in 1..Len(time_slots) :
        \E period \in time_slots[k].start_period..(time_slots[k].end_period - 1) :
            <<time_slots[k].weekday, period>> \in occupied

\* A conflict test that looks at the first period of each slot only.
_has_conflict_first_period(time_slots, occupied) ==
    \E k \in 1..Len(time_slots) :
        <<time_slots[k].weekday, time_slots[k].start_period>> \in occupied

\* _has_conflict: some cell of some slot is in occupied.
_has_conflict(time_slots, occupied) ==
    \E k \in 1..Len(time_slots) :
        \E period \in time_slots[k].start_period..time_slots[k].end_period :
            <<time_slots[k].weekday, period>> \in occupied

\* The list `added` built by _occupy: every cell of every slot, in order,
\* repeated when slots overlap.
RECURSIVE AddedCells(_)
AddedCells(time_slots) ==
    IF time_slots = <<>>
    THEN <<>>
    ELSE periods(Head(time_slots)) \o AddedCells(Tail(time_slots))

SeqToSet(s) == {s[k] : k \in 1..Len(s)}

\* _occupy: adds every cell to occupied and returns the list of cells.
_occupy(time_slots, occupied) ==
    [added |-> AddedCells(time_slots),
     occupied |-> occupied \cup SeqToSet(AddedCells(time_slots))]

\* A release that forgets the last cell of the list.
_release_leaky(added, occupied) ==
    occupied \ {added[k] : k \in 1..(Len(added) - 1)}

\* _release: discards every cell of `added` from occupied.
_release(added, occupied) == occupied \ SeqToSet(added)

\* No filtering: courses without sections stay in the list.
unfiltered_courses(courses) == courses

\* valid_courses: the courses that have sections, in input order.
valid_courses(courses) == SelectSeq(courses, LAMBDA c : Len(c.sections) > 0)

\* A sort that puts a course before the courses with the same number of
\* sections: ties come out in reverse input order.
sorted_ties_reversed(cs) ==
    LET before(i, j) ==
            \/ Len(cs[i].sections) < Len(cs[j].sections)
            \/ Len(cs[i].sections) = Len(cs[j].sections) /\ i > j
        rank(i) == 1 + Cardinality({j \in 1..Len(cs) : before(j, i)})
    IN [r \in 1..Len(cs) |-> cs[CHOOSE i \in 1..Len(cs) : rank(i) = r]]

\* No sorting: the courses stay in input order.
unsorted(cs) == cs

\* sorted(..., key=len(sections)): stable, ascending.  The course at
\* position i goes after every course with fewer sections and after the
\* courses before it with as many.
sorted_by_sections(cs) ==
    LET before(i, j) ==
            \/ Len(cs[i].sections) < Len(cs[j].sections)
            \/ Len(cs[i].sections) = Len(cs[j].sections) /\ i < j
        rank(i) == 1 + Cardinality({j \in 1..Len(cs) : before(j, i)})
    IN [r \in 1..Len(cs) |-> cs[CHOOSE i \in 1..Len(cs) : rank(i) = r]]

\* A cutoff test that is off by one.
CapReachedOffByOne(results, max_results) == Len(results) > max_results

\* The cutoff test at the entry of _backtrack.
CapReached(results, max_results) == Len(results) >= max_results

Pop(s) == SubSeq(s, 1, Len(s) - 1)

(***************************************************************************)
(* solve as a recursive operator                                           *)
(***************************************************************************)
RECURSIVE _backtrack(_, _, _, _)
RECURSIVE SectionLoop(_, _, _, _, _)

\* st = [results, occupied, current_choice]: the three closure variables.
_backtrack(sc, max_results, index, st) ==
    IF CapReached(st.results, max_results)
    THEN st
    ELSE IF index = Len(sc)
    THEN [st EXCEPT !.results = Append(@, st.current_choice)]
    ELSE SectionLoop(sc, max_results, index, 0, st)

\* The for loop of _backtrack from its i-th iteration on.
SectionLoop(sc, max_results, index, i, st) ==
    IF i = Len(sc[index + 1].sections)
    THEN st
    ELSE LET section == sc[index + 1].sections[i + 1] IN
         IF section.time_slots = <<>>
         THEN LET s1 == [st EXCEPT !.current_choice = Append(@, section)]
                  s2 == _backtrack(sc, max_results, index + 1, s1)
                  s3 == [s2 EXCEPT !.current_choice = Pop(@)]
              IN SectionLoop(sc, max_results, index, i + 1, s3)
         ELSE IF _has_conflict(section.time_slots, st.occupied)
         THEN SectionLoop(sc, max_results, index, i + 1, st)
         ELSE LET o == _occupy(section.time_slots, st.occupied)
                  s1 == [st EXCEPT !.occupied = o.occupied,
                                   !.current_choice = Append(@, section)]
                  s2 == _backtrack(sc, max_results, index + 1, s1)
                  s3 == [s2 EXCEPT !.current_choice = Pop(@),
                                   !.occupied = _release(o.added, @)]
              IN SectionLoop(sc, max_results, index, i + 1, s3)

solve(cs, max_results) ==
    IF cs = <<>>
    THEN <<>>
    ELSE IF valid_courses(cs) = <<>>
    THEN <<>>
    ELSE _backtrack(sorted_by_sections(valid_courses(cs)), max_results, 0,
                    [results |-> <<>>, occupied |-> {}, current_choice |-> <<>>]).results

(***************************************************************************)
(* solve as a step machine                                                 *)
(***************************************************************************)
VARIABLES
    pc,              \* "start": solve called; "searching"; "done": solve returned
    courses,         \* argument courses
    max_results,     \* argument max_results
    sorted_courses,  \* local sorted_courses
    results,         \* local results
    occupied,        \* local occupied
    current_choice,  \* local current_choice
    stack            \* active calls of _backtrack, innermost last

vars == <<pc, courses, max_results, sorted_courses, results, occupied,
          current_choice, stack>>

\* A frame: index is the argument of the call; at is the position in the
\* body ("enter": at the first line, "loop": at the head of the for loop,
\* "call": inside the nested call made for section i); i counts the
\* sections already passed by the loop; added is the list returned by
\* _occupy; occupied0 and choice0 record occupied and current_choice at the
\* time the call was entered.
NewFrame(index, occ, choice) ==
    [index |-> index, at |-> "enter", i |-> 0, added |-> <<>>,
     occupied0 |-> occ, choice0 |-> choice]

Top == stack[Len(stack)]
TopCourse == sorted_courses[Top.index + 1]
\* The loop taking the sections of the course from the last to the first.
TopSectionFromEnd == TopCourse.sections[Len(TopCourse.sections) - Top.i]

TopSection == TopCourse.sections[Top.i + 1]
SetTop(f) == [stack EXCEPT ![Len(stack)] = f]

Init ==
    /\ pc = "start"
    /\ courses \in Inputs
    /\ max_results \in Caps
    /\ sorted_courses = <<>>
    /\ results = <<>>
    /\ occupied = {}
    /\ current_choice = <<>>
    /\ stack = <<>>

\* solve, lines 67-85 and the call _backtrack(0) without the two guards.
SolveEntryUnguarded ==
    /\ pc = "start"
    /\ sorted_courses' = sorted_by_sections(valid_courses(courses))
    /\ pc' = "searching"
    /\ stack' = <<NewFrame(0, {}, <<>>)>>
    /\ UNCHANGED <<courses, max_results, results, occupied, current_choice>>

\* solve, lines 67-85 and the call _backtrack(0) of line 121.
SolveEntry ==
    /\ pc = "start"
    /\ IF courses = <<>> \/ valid_courses(courses) = <<>>
       THEN /\ pc' = "done"
            /\ UNCHANGED <<sorted_courses, stack>>
       ELSE /\ sorted_courses' = sorted_by_sections(valid_courses(courses))
            /\ pc' = "searching"
            /\ stack' = <<NewFrame(0, {}, <<>>)>>
    /\ UNCHANGED <<courses, max_results, results, occupied, current_choice>>

\* _backtrack, lines 89-97: cutoff, record, or start the loop.
BacktrackEnter ==
    /\ pc = "searching"
    /\ stack # <<>>
    /\ Top.at = "enter"
    /\ IF CapReached(results, max_results)
       THEN /\ stack' = Pop(stack)
            /\ UNCHANGED results
       ELSE IF Top.index = Len(sorted_courses)
       THEN /\ results' = Append(results, current_choice)
            /\ stack' = Pop(stack)
       ELSE /\ stack' = SetTop([Top EXCEPT !.at = "loop"])
            /\ UNCHANGED results
    /\ UNCHANGED <<pc, courses, max_results, sorted_courses, occupied,
                   current_choice>>

\* The for loop is over: the call returns.
LoopExhausted ==
    /\ pc = "searching"
    /\ stack # <<>>
    /\ Top.at = "loop"
    /\ Top.i = Len(TopCourse.sections)
    /\ stack' = Pop(stack)
    /\ UNCHANGED <<pc, courses, max_results, sorted_courses, results, occupied,
                   current_choice>>

\* A loop that passes over a section without time slots.
SkipVacuous ==
    /\ pc = "searching"
    /\ stack # <<>>
    /\ Top.at = "loop"
    /\ Top.i < Len(TopCourse.sections)
    /\ TopSection.time_slots = <<>>
    /\ stack' = SetTop([Top EXCEPT !.i = @ + 1])
    /\ UNCHANGED <<pc, courses, max_results, sorted_courses, results, occupied,
                   current_choice>>

\* Lines 100-103: a section without time slots is appended and recursed into.
ChooseVacuous ==
    /\ pc = "searching"
    /\ stack # <<>>
    /\ Top.at = "loop"
    /\ Top.i < Len(TopCourse.sections)
    /\ TopSection.time_slots = <<>>
    /\ current_choice' = Append(current_choice, TopSection)
    /\ stack' = Append(SetTop([Top EXCEPT !.at = "call", !.added = <<>>]),
                       NewFrame(Top.index + 1, occupied, current_choice'))
    /\ UNCHANGED <<pc, courses, max_results, sorted_courses, results, occupied>>

\* Lines 108-109: a conflicting section is passed over.
SkipConflict ==
    /\ pc = "searching"
    /\ stack # <<>>
    /\ Top.at = "loop"
    /\ Top.i < Len(TopCourse.sections)
    /\ TopSection.time_slots # <<>>
    /\ _has_conflict(TopSection.time_slots, occupied)
    /\ stack' = SetTop([Top EXCEPT !.i = @ + 1])
    /\ UNCHANGED <<pc, courses, max_results, sorted_courses, results, occupied,
                   current_choice>>

\* Lines 112-115: occupy, append, recurse.
ChooseSection ==
    /\ pc = "searching"
    /\ stack # <<>>
    /\ Top.at = "loop"
    /\ Top.i < Len(TopCourse.sections)
    /\ TopSection.time_slots # <<>>
    /\ ~_has_conflict(TopSection.time_slots, occupied)
    /\ LET o == _occupy(TopSection.time_slots, occupied) IN
         /\ occupied' = o.occupied
         /\ current_choice' = Append(current_choice, TopSection)
         /\ stack' = Append(SetTop([Top EXCEPT !.at = "call", !.added = o.added]),
                            NewFrame(Top.index + 1, occupied', current_choice'))
    /\ UNCHANGED <<pc, courses, max_results, sorted_courses, results>>

\* Lines 104-105: back from the call made for a section without time slots.
UnchooseVacuous ==
    /\ pc = "searching"
    /\ stack # <<>>
    /\ Top.at = "call"
    /\ TopSection.time_slots = <<>>
    /\ current_choice' = Pop(current_choice)
    /\ stack' = SetTop([Top EXCEPT !.at = "loop", !.i = @ + 1])
    /\ UNCHANGED <<pc, courses, max_results, sorted_courses, results, occupied>>

\* A return from the call that does not move on to the next section.
UnchooseNoAdvance ==
    /\ pc = "searching"
    /\ stack # <<>>
    /\ Top.at = "call"
    /\ TopSection.time_slots # <<>>
    /\ current_choice' = Pop(current_choice)
    /\ occupied' = _release(Top.added, occupied)
    /\ stack' = SetTop([Top EXCEPT !.at = "loop", !.added = <<>>])
    /\ UNCHANGED <<pc, courses, max_results, sorted_courses, results>>

\* Lines 118-119: back from the call made for an occupied section.
Unchoose ==
    /\ pc = "searching"
    /\ stack # <<>>
    /\ Top.at = "call"
    /\ TopSection.time_slots # <<>>
    /\ current_choice' = Pop(current_choice)
    /\ occupied' = _release(Top.added, occupied)
    /\ stack' = SetTop([Top EXCEPT !.at = "loop", !.i = @ + 1, !.added = <<>>])
    /\ UNCHANGED <<pc, courses, max_results, sorted_courses, results>>

\* Line 122: _backtrack(0) has returned, solve returns results.
SolveReturn ==
    /\ pc = "searching"
    /\ stack = <<>>
    /\ pc' = "done"
    /\ UNCHANGED <<courses, max_results, sorted_courses, results, occupied,
                   current_choice, stack>>

Next ==
    \/ SolveEntry
    \/ BacktrackEnter
    \/ LoopExhausted
    \/ ChooseVacuous
    \/ SkipConflict
    \/ ChooseSection
    \/ UnchooseVacuous
    \/ Unchoose
    \/ SolveReturn

Spec == Init /\ [][Next]_vars

\* The caller before the call: nothing is known of the arguments yet.
CallInit ==
    /\ pc = "idle"
    /\ courses = <<>>
    /\ max_results = DefaultMaxResults
    /\ sorted_courses = <<>>
    /\ results = <<>>
    /\ occupied = {}
    /\ current_choice = <<>>
    /\ stack = <<>>

\* A caller calls solve(courses, max_results).
SolveCall ==
    /\ pc = "idle"
    /\ pc' = "start"
    /\ courses' \in Inputs
    /\ max_results' \in Caps
    /\ UNCHANGED <<sorted_courses, results, occupied, current_choice, stack>>

FairNext == SolveCall \/ Next

\* solve runs to completion once called: a single thread that takes its
\* next step whenever it has one.  Nothing obliges the caller to call.
FairSpec == CallInit /\ [][FairNext]_vars /\ WF_vars(Next)

(***************************************************************************)
(* _occupy and _release on their own                                       *)
(***************************************************************************)
\* The two helpers applied to any occupancy set and any list of slots, as
\* a caller other than _backtrack may apply them.  The variables are used
\* as follows: occupied is the set handed to the helpers, current_choice
\* holds the one section whose slots are occupied, and stack holds one
\* frame that records the set before _occupy (occupied0) and the list that
\* _occupy returned (added).
GridCells == UNION {all_periods([time_slots |-> sl]) : sl \in SlotLists}

GridInit ==
    /\ pc = "grid"
    /\ courses = <<>>
    /\ max_results = DefaultMaxResults
    /\ sorted_courses = <<>>
    /\ results = <<>>
    /\ occupied \in SUBSET GridCells
    /\ \E sl \in SlotLists :
          current_choice = <<[course_name |-> 1, section_id |-> 1, time_slots |-> sl]>>
    /\ stack = <<>>

\* added = _occupy(time_slots, occupied), lines 30-38.
GridOccupy ==
    /\ pc = "grid"
    /\ stack = <<>>
    /\ LET o == _occupy(current_choice[1].time_slots, occupied) IN
         /\ occupied' = o.occupied
         /\ stack' = <<[NewFrame(0, occupied, current_choice)
                          EXCEPT !.at = "occupied", !.added = o.added]>>
    /\ UNCHANGED <<pc, courses, max_results, sorted_courses, results,
                   current_choice>>

\* _release(added, occupied), lines 41-44.
GridRelease ==
    /\ pc = "grid"
    /\ stack # <<>>
    /\ Top.at = "occupied"
    /\ occupied' = _release(Top.added, occupied)
    /\ stack' = SetTop([Top EXCEPT !.at = "released"])
    /\ UNCHANGED <<pc, courses, max_results, sorted_courses, results,
                   current_choice>>

GridNext == GridOccupy \/ GridRelease

GridSpec == GridInit /\ [][GridNext]_vars

(***************************************************************************)
(* The state of the search engine                                          *)
(***************************************************************************)
\* solve keeps no state of its own besides the result list.  The engine
\* state is read off the machine: Searching until solve returns, Stopped
\* when it returns with the result count at the cap, Exhausted when it
\* returns with the count below the cap.
EngineState ==
    IF pc # "done" THEN "Searching"
    ELSE IF Len(results) >= max_results THEN "Stopped"
    ELSE "Exhausted"

(***************************************************************************)
(* Consistency of the two models of solve                                  *)
(***************************************************************************)
TypeOK ==
    /\ pc \in {"start", "searching", "done"}
    /\ courses \in Inputs
    /\ max_results \in Caps
    /\ \A k \in 1..Len(stack) : stack[k].at \in {"enter", "loop", "call"}

\* The step machine returns what the recursive operator computes.
MachineAgreesWithOperator ==
    pc = "done" => results = solve(courses, max_results)

(***************************************************************************)
(* Definitions used to state the properties                                *)
(***************************************************************************)
\* The sections of a schedule, as a set.
SectionsOf(schedule) == {schedule[k] : k \in 1..Len(schedule)}

\* Two sections of one schedule never share a cell.
Disjoint(schedule) ==
    \A a, b \in 1..Len(schedule) :
        a # b => all_periods(schedule[a]) \cap all_periods(schedule[b]) = {}

\* Every choice of one section per course of cs, as a function from the
\* position of the course to the section.
Choices(cs) ==
    {ch \in [1..Len(cs) -> UNION {SectionsOf(cs[k].sections) : k \in 1..Len(cs)}] :
        \A k \in 1..Len(cs) : ch[k] \in SectionsOf(cs[k].sections)}

\* The conflict-free combinations of cs, each as a set of sections.
Combinations(cs) ==
    {SectionsOf(ch) : ch \in {c \in Choices(cs) : Disjoint(c)}}

AllHaveSections(cs) == \A k \in 1..Len(cs) : Len(cs[k].sections) > 0

NoDuplicates(rs) == \A a, b \in 1..Len(rs) : a # b => rs[a] # rs[b]

\* The schedules of a result list, each read as a set of sections.
Assignments(rs) == {SectionsOf(rs[k]) : k \in 1..Len(rs)}

\* The orders of 1..n, and a course list rearranged by one.
CourseOrders(n) == {p \in [1..n -> 1..n] : \A a, b \in 1..n : a # b => p[a] # p[b]}
Permuted(cs, p) == [k \in 1..Len(cs) |-> cs[p[k]]]

(***************************************************************************)
(* Properties                                                              *)
(***************************************************************************)
\* C1: in every schedule of the result list, any two distinct sections
\* cover disjoint sets of (weekday, period) cells.
C1_Disjointness == \A k \in 1..Len(results) : Disjoint(results[k])

\* C1 witness: solve has returned a schedule with two sections that both
\* cover cells.
C1_Witness ==
    /\ pc = "done"
    /\ \E k \in 1..Len(results) : \E a, b \in 1..Len(results[k]) :
          /\ a # b
          /\ all_periods(results[k][a]) # {}
          /\ all_periods(results[k][b]) # {}

\* C3: with max_results >= 1 the result list never holds more than
\* max_results schedules.
C3_CapRespected == max_results >= 1 => Len(results) <= max_results

\* C3 witness: the cap is reached while a loop still has sections to try.
C3_Witness ==
    /\ pc = "searching"
    /\ max_results >= 1
    /\ Len(results) = max_results
    /\ stack # <<>>
    /\ Top.at = "loop"
    /\ Top.i < Len(TopCourse.sections)

\* C2 (as stated): when every course has a section and max_results exceeds
\* the number of conflict-free combinations, solve returns each of them
\* exactly once, and the same set for every order of the course list.
C2_Completeness ==
    (/\ pc = "done"
     /\ AllHaveSections(courses)
     /\ max_results > Cardinality(Combinations(courses)))
    => /\ NoDuplicates(results)
       /\ Len(results) = Cardinality(Combinations(courses))
       /\ Assignments(results) = Combinations(courses)
       /\ \A p \in CourseOrders(Len(courses)) :
             Assignments(solve(Permuted(courses, p), max_results))
                 = Assignments(results)

\* C2 (amended): the same for a course list that is not empty.
C2_CompletenessNonEmpty ==
    (/\ pc = "done"
     /\ courses # <<>>
     /\ AllHaveSections(courses)
     /\ max_results > Cardinality(Combinations(courses)))
    => /\ NoDuplicates(results)
       /\ Len(results) = Cardinality(Combinations(courses))
       /\ Assignments(results) = Combinations(courses)
       /\ \A p \in CourseOrders(Len(courses)) :
             Assignments(solve(Permuted(courses, p), max_results))
                 = Assignments(results)

\* C2 witness: two or more courses given in an order the sort changes,
\* with a choice of sections ruled out by a conflict and another that is
\* returned, no cutoff.
C2_Witness ==
    /\ pc = "done"
    /\ Len(courses) >= 2
    /\ AllHaveSections(courses)
    /\ sorted_courses # courses
    /\ max_results > Cardinality(Combinations(courses))
    /\ Cardinality(Combinations(courses)) >= 1
    /\ Cardinality(Combinations(courses)) < Cardinality(Choices(courses))
    /\ Len(results) = Cardinality(Combinations(courses))

\* C4 (as stated): once the result count has reached max_results no section
\* is appended to the current choice, no cell is occupied and no call of
\* _backtrack is made any more.
C4_HardGlobalCutoff ==
    [][(/\ pc = "searching"
        /\ max_results >= 1
        /\ Len(results) >= max_results)
       => /\ Len(current_choice') <= Len(current_choice)
          /\ occupied' \subseteq occupied
          /\ Len(stack') <= Len(stack)]_vars

\* The course of the input a section belongs to.
CourseOf(section) == courses[section.course_name]

\* C5 (as stated): when every input course has sections, every returned
\* schedule has one section per input course, the i-th section belonging
\* to the i-th input course.
C5_InputOrder ==
    (pc = "done" /\ AllHaveSections(courses)) =>
        \A k \in 1..Len(results) :
            /\ Len(results[k]) = Len(courses)
            /\ \A i \in 1..Len(results[k]) :
                  results[k][i] \in SectionsOf(courses[i].sections)

\* C5 (amended): every returned schedule has one section per input course
\* that has sections, ordered by ascending number of sections of the
\* course, courses with the same number in input order.
C5_SortedOrder ==
    pc = "done" =>
        \A k \in 1..Len(results) :
            LET r == results[k] IN
            /\ Len(r) = Cardinality({c \in 1..Len(courses) :
                                        Len(courses[c].sections) > 0})
            /\ \A i \in 1..Len(r) : r[i] \in SectionsOf(CourseOf(r[i]).sections)
            /\ \A i, j \in 1..Len(r) :
                  i < j =>
                    \/ Len(CourseOf(r[i]).sections) < Len(CourseOf(r[j]).sections)
                    \/ /\ Len(CourseOf(r[i]).sections) = Len(CourseOf(r[j]).sections)
                       /\ r[i].course_name < r[j].course_name

\* C5 witness: a schedule is returned for courses that all have sections
\* and that the sort has reordered.
C5_Witness ==
    /\ pc = "done"
    /\ results # <<>>
    /\ AllHaveSections(courses)
    /\ sorted_courses # courses

\* C6 (as stated): solve with a non-empty list of courses that have
\* sections and a negative max_results does not return a result list.
C6_NegativeCapRejected ==
    ~(/\ pc = "done"
      /\ courses # <<>>
      /\ AllHaveSections(courses)
      /\ max_results < 0)

\* C7 (as stated): for an empty course list solve returns exactly one
\* schedule, which has no section.
C7_EmptyListOneSchedule ==
    (pc = "done" /\ courses = <<>> /\ max_results >= 1) => results = <<<<>>>>

\* C7 (amended): for an empty course list solve returns no schedule.
C7_EmptyListNoSchedule ==
    (pc = "done" /\ courses = <<>> /\ max_results >= 1) => results = <<>>

\* C7 witness: solve has returned for an empty course list.
C7_Witness == pc = "done" /\ courses = <<>> /\ max_results >= 1

\* The input without its courses that have no section.
WithoutEmptyCourses(cs) == SelectSeq(cs, LAMBDA c : c.sections # <<>>)

\* C8: for an input that mixes courses without sections and courses with
\* sections, solve returns what it returns for the input without the
\* former, every schedule holding one section per remaining course.
C8_EmptyCoursesSkipped ==
    (/\ pc = "done"
     /\ \E a \in 1..Len(courses) : courses[a].sections = <<>>
     /\ \E b \in 1..Len(courses) : courses[b].sections # <<>>)
    => /\ results = solve(WithoutEmptyCourses(courses), max_results)
       /\ \A k \in 1..Len(results) :
             /\ Len(results[k]) = Len(WithoutEmptyCourses(courses))
             /\ {results[k][i].course_name : i \in 1..Len(results[k])}
                   = {c \in 1..Len(courses) : courses[c].sections # <<>>}

\* C8 witness: schedules are returned for an input that has a course
\* without sections between two courses with sections.
C8_Witness ==
    /\ pc = "done"
    /\ Len(courses) = 3
    /\ courses[1].sections # <<>>
    /\ courses[2].sections = <<>>
    /\ courses[3].sections # <<>>
    /\ results # <<>>

C10_ScopedAcquireRelease ==
    /\ (pc = "searching" /\ stack # <<>> /\ Top.at \in {"enter", "loop"})
          => /\ occupied = Top.occupied0
             /\ current_choice = Top.choice0
    /\ pc = "done" => occupied = {} /\ current_choice = <<>>

\* C10 witness: a call entered with cells occupied is about to return,
\* after its loop has occupied and released a section with overlapping
\* slots.
C10_Witness ==
    /\ pc = "searching"
    /\ stack # <<>>
    /\ Top.at = "loop"
    /\ Top.i = Len(TopCourse.sections)
    /\ Top.occupied0 # {}
    /\ occupied = Top.occupied0
    /\ \E j \in 1..Len(TopCourse.sections) :
          /\ TopCourse.sections[j].time_slots = Multi
          /\ ~_has_conflict(Multi, Top.occupied0)

\* C11 (as stated): for every occupancy set and every list of slots,
\* _occupy marks every cell of the slots and returns exactly the cells that
\* were not occupied before, and _release of that list restores the
\* occupancy set that held before _occupy.
C11_TokenExact ==
    (pc = "grid" /\ stack # <<>>) =>
        /\ Top.at = "occupied" =>
              /\ occupied = Top.occupied0 \cup all_periods(current_choice[1])
              /\ SeqToSet(Top.added) = all_periods(current_choice[1]) \ Top.occupied0
        /\ Top.at = "released" => occupied = Top.occupied0

\* C12: with more conflict-free combinations than max_results >= 1 solve
\* returns exactly max_results schedules and ends Stopped, leaving a
\* combination out; when it returns with the count below the cap it ends
\* Exhausted and every combination of the searched courses is in the list.
C12_TerminalState ==
    (pc = "done" /\ max_results >= 1 /\ valid_courses(courses) # <<>>) =>
        LET all == Combinations(WithoutEmptyCourses(courses)) IN
        /\ Cardinality(all) > max_results =>
              /\ Len(results) = max_results
              /\ EngineState = "Stopped"
              /\ Assignments(results) # all
        /\ Len(results) < max_results =>
              /\ EngineState = "Exhausted"
              /\ Assignments(results) = all

\* C12 witness: solve has returned one schedule for two courses of two
\* sections each with four conflict-free combinations and max_results = 1.
C12_Witness ==
    /\ pc = "done"
    /\ courses = ScenarioC
    /\ max_results = 1
    /\ Cardinality(Combinations(courses)) = 4
    /\ Len(results) = 1
    /\ EngineState = "Stopped"

\* C13: every call of solve reaches the point where solve returns, and the depth
\* of the recursion (the index of the innermost call of _backtrack, the
\* k-th nested call having index k - 1) never exceeds the number of courses
\* that have sections.
C13_Termination ==
    /\ (pc = "start") ~> (pc = "done")
    /\ [](\A k \in 1..Len(stack) :
              /\ stack[k].index = k - 1
              /\ stack[k].index <= Cardinality({c \in 1..Len(courses) :
                                                   courses[c].sections # <<>>}))

\* C13 witness: solve has returned after a search over three courses that
\* recorded a schedule, that is after calls of _backtrack at depth three.
C13_Witness ==
    /\ pc = "done"
    /\ max_results >= 1
    /\ Len(sorted_courses) = 3
    /\ results # <<>>
    /\ stack = <<>>

\* C14: during and after the search the list the search branches on holds
\* exactly the input courses that have sections, in ascending number of
\* sections, courses with the same number in input order; the k-th nested
\* call of _backtrack branches on the k-th course of that list; and the
\* input list keeps its order.
C14_CourseOrdering ==
    /\ \A i \in 1..Len(courses) : courses[i].name = i
    /\ (pc \in {"searching", "done"} /\ valid_courses(courses) # <<>>) =>
          /\ Len(sorted_courses) = Cardinality({c \in 1..Len(courses) :
                                                   courses[c].sections # <<>>})
          /\ \A i \in 1..Len(sorted_courses) :
                /\ sorted_courses[i].name \in 1..Len(courses)
                /\ sorted_courses[i] = courses[sorted_courses[i].name]
                /\ sorted_courses[i].sections # <<>>
          /\ \A i, j \in 1..Len(sorted_courses) :
                i < j =>
                  \/ Len(sorted_courses[i].sections) < Len(sorted_courses[j].sections)
                  \/ /\ Len(sorted_courses[i].sections) = Len(sorted_courses[j].sections)
                     /\ sorted_courses[i].name < sorted_courses[j].name
          /\ \A k \in 1..Len(stack) : stack[k].index = k - 1
          /\ \A k \in 1..Len(current_choice) :
                current_choice[k] \in SectionsOf(sorted_courses[k].sections)

\* C14 witness: the search has chosen a section of each of two courses
\* that the sort has put in another order than the input.
C14_Witness ==
    /\ pc = "searching"
    /\ sorted_courses # valid_courses(courses)
    /\ Len(current_choice) = 2
    /\ current_choice[1].course_name > current_choice[2].course_name

\* The section ids of two schedules compared from the first course on.
LexLess(a, b) ==
    \E k \in 1..Len(a) :
        /\ k <= Len(b)
        /\ \A m \in 1..(k - 1) : a[m].section_id = b[m].section_id
        /\ a[k].section_id < b[k].section_id

\* C15: the list solve returns with a cap k >= 1 is the first min(k, N)
\* schedules of the list it returns with a cap above the number N of
\* schedules, and that list is in depth-first order: ascending in the
\* positions of the chosen sections, compared course by course in the
\* order of the sorted courses.
C15_CapPrefix ==
    (pc = "done" /\ max_results >= 1) =>
        LET full == solve(courses, DefaultMaxResults)
            n == IF max_results < Len(full) THEN max_results ELSE Len(full)
        IN /\ Len(full) < DefaultMaxResults
           /\ results = SubSeq(full, 1, n)
           /\ \A a, b \in 1..Len(full) : a < b => LexLess(full[a], full[b])

\* C15 witness: solve has returned, cut off by the cap, a proper prefix of
\* the full list of schedules over two or more courses.
C15_Witness ==
    /\ pc = "done"
    /\ max_results >= 1
    /\ Len(sorted_courses) >= 2
    /\ max_results < Len(solve(courses, DefaultMaxResults))
    /\ Len(results) = max_results

====
